---------------------------- MODULE Spec2Model ----------------------------
(***************************************************************************)
(* Model of subenzyme-codec (src/lib.rs): the storage-key derivation       *)
(* storage_key and the account-identifier codec AccountId::to_string /     *)
(* AccountId::from_str.                                                     *)
(*                                                                          *)
(* Bytes are the integers 0..255.  A byte string (Vec<u8>, &[u8]) is a      *)
(* sequence of bytes.  A 64-bit word is a sequence of 8 bytes, least        *)
(* significant byte first, so that no intermediate value leaves the        *)
(* 32-bit integers of the model checker and wrap-around is explicit.       *)
(***************************************************************************)
EXTENDS Integers, Sequences, FiniteSets, TLC

\* F(e), with e evaluated first and once.  It stands for "let x = e" in the
\* code: Let(e, LAMBDA x : ...).  (The test e = e makes e a value before F
\* uses it; a LET definition would be evaluated at each of its uses, one
\* inside the other.)
Let(e, F(_)) == IF e = e THEN F(e) ELSE F(e)

(***************************************************************************)
(* 64-bit word arithmetic (u64, wrapping).                                  *)
(***************************************************************************)
RECURSIVE BitXor(_, _, _)
BitXor(a, b, n) ==
    IF n = 0 THEN 0
    ELSE ((a + b) % 2) + 2 * BitXor(a \div 2, b \div 2, n - 1)

NibbleXor == [a \in 0..15 |-> [b \in 0..15 |-> BitXor(a, b, 4)]]

ByteXor(a, b) ==
    16 * NibbleXor[a \div 16][b \div 16] + NibbleXor[a % 16][b % 16]

Pow2 == <<1, 2, 4, 8, 16, 32, 64, 128, 256>>

\* n < 2^24 as a word
WordOfNat(n) == <<n % 256, (n \div 256) % 256, (n \div 65536) % 256, 0, 0, 0, 0, 0>>

WXor(x, y) ==
    <<ByteXor(x[1], y[1]), ByteXor(x[2], y[2]), ByteXor(x[3], y[3]),
      ByteXor(x[4], y[4]), ByteXor(x[5], y[5]), ByteXor(x[6], y[6]),
      ByteXor(x[7], y[7]), ByteXor(x[8], y[8])>>

WNot(x) ==
    <<255 - x[1], 255 - x[2], 255 - x[3], 255 - x[4],
      255 - x[5], 255 - x[6], 255 - x[7], 255 - x[8]>>

\* x.wrapping_add(y): byte by byte with the carry, the carry out of the
\* last byte dropped
WAdd(x, y) ==
    LET s1 == x[1] + y[1]
        s2 == x[2] + y[2] + s1 \div 256
        s3 == x[3] + y[3] + s2 \div 256
        s4 == x[4] + y[4] + s3 \div 256
        s5 == x[5] + y[5] + s4 \div 256
        s6 == x[6] + y[6] + s5 \div 256
        s7 == x[7] + y[7] + s6 \div 256
        s8 == x[8] + y[8] + s7 \div 256
    IN  <<s1 % 256, s2 % 256, s3 % 256, s4 % 256,
          s5 % 256, s6 % 256, s7 % 256, s8 % 256>>

\* x.rotate_left(n), 0 <= n < 64
RotL(x, n) ==
    LET q == n \div 8
        r == n % 8
        at(i) == x[((i - 1 + 16 - q) % 8) + 1]
        by(i) == ((at(i) * Pow2[r + 1]) % 256) + (at(i + 7) \div Pow2[9 - r])
    IN  <<by(1), by(2), by(3), by(4), by(5), by(6), by(7), by(8)>>

RotR(x, n) == RotL(x, (64 - n) % 64)

(***************************************************************************)
(* BLAKE2b-512, unkeyed (blake2b_simd::blake2b), RFC 7693.                  *)
(***************************************************************************)
IV ==
    << <<8, 201, 188, 243, 103, 230, 9, 106>>,
       <<59, 167, 202, 132, 133, 174, 103, 187>>,
       <<43, 248, 148, 254, 114, 243, 110, 60>>,
       <<241, 54, 29, 95, 58, 245, 79, 165>>,
       <<209, 130, 230, 173, 127, 82, 14, 81>>,
       <<31, 108, 62, 43, 140, 104, 5, 155>>,
       <<107, 189, 65, 251, 171, 217, 131, 31>>,
       <<121, 33, 126, 19, 25, 205, 224, 91>> >>

SIGMA ==
    << << 0,  1,  2,  3,  4,  5,  6,  7,  8,  9, 10, 11, 12, 13, 14, 15>>,
       <<14, 10,  4,  8,  9, 15, 13,  6,  1, 12,  0,  2, 11,  7,  5,  3>>,
       <<11,  8, 12,  0,  5,  2, 15, 13, 10, 14,  3,  6,  7,  1,  9,  4>>,
       << 7,  9,  3,  1, 13, 12, 11, 14,  2,  6,  5, 10,  4,  0, 15,  8>>,
       << 9,  0,  5,  7,  2,  4, 10, 15, 14,  1, 11, 12,  6,  8,  3, 13>>,
       << 2, 12,  6, 10,  0, 11,  8,  3,  4, 13,  7,  5, 15, 14,  1,  9>>,
       <<12,  5,  1, 15, 14, 13,  4, 10,  0,  7,  6,  3,  9,  2,  8, 11>>,
       <<13, 11,  7, 14, 12,  1,  3,  9,  5,  0, 15,  4,  8,  6,  2, 10>>,
       << 6, 15, 14,  9, 11,  3,  0,  8, 12,  2, 13,  7,  1,  4, 10,  5>>,
       <<10,  2,  8,  4,  7,  6,  1,  5, 15, 11,  9, 14,  3, 12, 13,  0>> >>

\* The mixing function G on the working vector v (indices a, b, c, d are
\* 0-based as in the RFC; v is a 16-tuple indexed from 1).
G(v, a, b, c, d, x, y) ==
    Let(WAdd(WAdd(v[a + 1], v[b + 1]), x),     LAMBDA a1 :
    Let(RotR(WXor(v[d + 1], a1), 32),          LAMBDA d1 :
    Let(WAdd(v[c + 1], d1),                    LAMBDA c1 :
    Let(RotR(WXor(v[b + 1], c1), 24),          LAMBDA b1 :
    Let(WAdd(WAdd(a1, b1), y),                 LAMBDA a2 :
    Let(RotR(WXor(d1, a2), 16),                LAMBDA d2 :
    Let(WAdd(c1, d2),                          LAMBDA c2 :
    Let(RotR(WXor(b1, c2), 63),                LAMBDA b2 :
        [v EXCEPT ![a + 1] = a2, ![b + 1] = b2, ![c + 1] = c2, ![d + 1] = d2]
    ))))))))

Round(v, m, s) ==
    LET w(k) == m[s[k + 1] + 1]
    IN  Let(G(v,  0, 4,  8, 12, w(0),  w(1)),  LAMBDA v1 :
        Let(G(v1, 1, 5,  9, 13, w(2),  w(3)),  LAMBDA v2 :
        Let(G(v2, 2, 6, 10, 14, w(4),  w(5)),  LAMBDA v3 :
        Let(G(v3, 3, 7, 11, 15, w(6),  w(7)),  LAMBDA v4 :
        Let(G(v4, 0, 5, 10, 15, w(8),  w(9)),  LAMBDA v5 :
        Let(G(v5, 1, 6, 11, 12, w(10), w(11)), LAMBDA v6 :
        Let(G(v6, 2, 7,  8, 13, w(12), w(13)), LAMBDA v7 :
            G(v7, 3, 4,  9, 14, w(14), w(15))
        )))))))

\* rounds lo..hi, in order (the range is halved rather than walked, which
\* keeps the evaluation shallow)
RECURSIVE Rounds(_, _, _, _)
Rounds(v, m, lo, hi) ==
    IF lo = hi THEN Round(v, m, SIGMA[(lo % 10) + 1])
    ELSE Let(Rounds(v, m, lo, (lo + hi) \div 2), LAMBDA v1 :
             Rounds(v1, m, (lo + hi) \div 2 + 1, hi))

\* Compression of one 128-byte block into the chain value h; t is the
\* number of bytes fed so far, last tells the final block.
Compress(h, block, t, last) ==
    LET w(k) == SubSeq(block, 8 * (k - 1) + 1, 8 * k)
        m  == <<w(1), w(2), w(3), w(4), w(5), w(6), w(7), w(8),
                w(9), w(10), w(11), w(12), w(13), w(14), w(15), w(16)>>
        v0 == h \o <<IV[1], IV[2], IV[3], IV[4],
                     WXor(IV[5], WordOfNat(t)), IV[6],
                     IF last THEN WNot(IV[7]) ELSE IV[7], IV[8]>>
    IN  Let(Rounds(v0, m, 0, 11), LAMBDA v :
            <<WXor(h[1], WXor(v[1], v[9])),  WXor(h[2], WXor(v[2], v[10])),
              WXor(h[3], WXor(v[3], v[11])), WXor(h[4], WXor(v[4], v[12])),
              WXor(h[5], WXor(v[5], v[13])), WXor(h[6], WXor(v[6], v[14])),
              WXor(h[7], WXor(v[7], v[15])), WXor(h[8], WXor(v[8], v[16]))>>)

ZeroBytes(n) == [i \in 1..n |-> 0]

RECURSIVE Blocks(_, _, _)
Blocks(h, data, t) ==
    IF Len(data) <= 128
    THEN Compress(h, data \o ZeroBytes(128 - Len(data)), t + Len(data), TRUE)
    ELSE Let(Compress(h, SubSeq(data, 1, 128), t + 128, FALSE), LAMBDA h1 :
             Blocks(h1, SubSeq(data, 129, Len(data)), t + 128))

\* blake2b(data): 64 digest bytes (parameter block: digest length 64,
\* no key, fanout 1, depth 1, i.e. h[0] = IV[0] xor 0x01010040).
blake2b(data) ==
    Let([IV EXCEPT ![1] = WXor(IV[1], <<64, 0, 1, 1, 0, 0, 0, 0>>)], LAMBDA h0 :
    Let(Blocks(h0, data, 0), LAMBDA h :
        h[1] \o h[2] \o h[3] \o h[4] \o h[5] \o h[6] \o h[7] \o h[8]))

(***************************************************************************)
(* More u64 arithmetic, used by XxHash64.                                   *)
(***************************************************************************)
\* x.wrapping_mul(y): the columns of the long multiplication, byte k of
\* the product being the sum of the x[i] * y[j] with i + j = k + 1 and of
\* the carry of column k - 1; the columns past the eighth are dropped
WMul(x, y) ==
    LET t(i, k) == IF i <= k THEN x[i] * y[k + 1 - i] ELSE 0
        col(k)  == t(1, k) + t(2, k) + t(3, k) + t(4, k)
                 + t(5, k) + t(6, k) + t(7, k) + t(8, k)
        s1 == col(1)
        s2 == col(2) + s1 \div 256
        s3 == col(3) + s2 \div 256
        s4 == col(4) + s3 \div 256
        s5 == col(5) + s4 \div 256
        s6 == col(6) + s5 \div 256
        s7 == col(7) + s6 \div 256
        s8 == col(8) + s7 \div 256
    IN  <<s1 % 256, s2 % 256, s3 % 256, s4 % 256,
          s5 % 256, s6 % 256, s7 % 256, s8 % 256>>

\* x >> n, 0 <= n < 64
Shr(x, n) ==
    LET q == n \div 8
        r == n % 8
        at(i) == IF i + q > 8 THEN 0 ELSE x[i + q]
        by(i) == (at(i) \div Pow2[r + 1]) + ((at(i + 1) * Pow2[9 - r]) % 256)
    IN  <<by(1), by(2), by(3), by(4), by(5), by(6), by(7), by(8)>>

\* u64::from_le_bytes / u32 as u64 / u8 as u64 of 8, 4 or 1 bytes
WordOfBytes(b) == b \o ZeroBytes(8 - Len(b))

(***************************************************************************)
(* XxHash64 (twox_hash), the std::hash::Hasher used by storage_key.         *)
(* The hasher is the record [seed, core, buffer, total_len]: core holds     *)
(* the four lane accumulators, buffer the bytes not yet ingested (fewer     *)
(* than CHUNK_SIZE after every write).                                      *)
(***************************************************************************)
PRIME64_1 == <<135, 202, 235, 133, 177, 121, 55, 158>>
PRIME64_2 == <<79, 235, 212, 39, 61, 174, 178, 194>>
PRIME64_3 == <<249, 121, 55, 158, 177, 103, 86, 22>>
PRIME64_4 == <<99, 174, 178, 194, 119, 202, 235, 133>>
PRIME64_5 == <<197, 103, 86, 22, 47, 235, 212, 39>>

CHUNK_SIZE == 32

\* 0u64.wrapping_sub(x)
WNeg(x) == WAdd(WNot(x), WordOfNat(1))

XxHash64_with_seed(seed) ==
    [seed      |-> seed,
     core      |-> <<WAdd(WAdd(seed, PRIME64_1), PRIME64_2),
                     WAdd(seed, PRIME64_2),
                     seed,
                     WAdd(seed, WNeg(PRIME64_1))>>,
     buffer    |-> <<>>,
     total_len |-> 0]

ingest_one_number(current_value, value) ==
    WMul(RotL(WAdd(current_value, WMul(value, PRIME64_2)), 31), PRIME64_1)

\* one 32-byte chunk into the four lanes
ingest_chunk(core, chunk) ==
    <<ingest_one_number(core[1], SubSeq(chunk, 1, 8)),
      ingest_one_number(core[2], SubSeq(chunk, 9, 16)),
      ingest_one_number(core[3], SubSeq(chunk, 17, 24)),
      ingest_one_number(core[4], SubSeq(chunk, 25, 32))>>

RECURSIVE ingest_chunks(_, _)
ingest_chunks(core, data) ==
    IF Len(data) < CHUNK_SIZE THEN [core |-> core, rest |-> data]
    ELSE Let(ingest_chunk(core, SubSeq(data, 1, CHUNK_SIZE)), LAMBDA nc :
             ingest_chunks(nc, SubSeq(data, CHUNK_SIZE + 1, Len(data))))

\* Hasher::write: the buffered bytes and the new ones are ingested chunk by
\* chunk, what is left (fewer than CHUNK_SIZE bytes) stays buffered.
XxHash64_write(hasher, bytes) ==
    Let(ingest_chunks(hasher.core, hasher.buffer \o bytes), LAMBDA r :
        [seed      |-> hasher.seed,
         core      |-> r.core,
         buffer    |-> r.rest,
         total_len |-> hasher.total_len + Len(bytes)])

\* Hasher::write_u8 (the trait's default: write(&[i]))
XxHash64_write_u8(hasher, b) == XxHash64_write(hasher, <<b>>)

mix_one(hash, value) ==
    Let(WMul(RotL(WMul(value, PRIME64_2), 31), PRIME64_1), LAMBDA v1 :
        WAdd(WMul(WXor(hash, v1), PRIME64_1), PRIME64_4))

XxCore_finish(core) ==
    Let(WAdd(WAdd(WAdd(RotL(core[1], 1), RotL(core[2], 7)),
                  RotL(core[3], 12)),
             RotL(core[4], 18)),    LAMBDA h0 :
    Let(mix_one(h0, core[1]),       LAMBDA h1 :
    Let(mix_one(h1, core[2]),       LAMBDA h2 :
    Let(mix_one(h2, core[3]),       LAMBDA h3 :
        mix_one(h3, core[4])))))

\* the buffered bytes: 8 at a time, then 4, then one by one
RECURSIVE finish_tail(_, _)
finish_tail(hash, buffered) ==
    IF Len(buffered) >= 8 THEN
        Let(WMul(RotL(WMul(SubSeq(buffered, 1, 8), PRIME64_2), 31), PRIME64_1),
            LAMBDA k1 :
        Let(WAdd(WMul(RotL(WXor(hash, k1), 27), PRIME64_1), PRIME64_4),
            LAMBDA h :
            finish_tail(h, SubSeq(buffered, 9, Len(buffered)))))
    ELSE IF Len(buffered) >= 4 THEN
        Let(WMul(WordOfBytes(SubSeq(buffered, 1, 4)), PRIME64_1),
            LAMBDA k1 :
        Let(WAdd(WMul(RotL(WXor(hash, k1), 23), PRIME64_2), PRIME64_3),
            LAMBDA h :
            finish_tail(h, SubSeq(buffered, 5, Len(buffered)))))
    ELSE IF Len(buffered) >= 1 THEN
        Let(WMul(WordOfBytes(<<buffered[1]>>), PRIME64_5),
            LAMBDA k1 :
        Let(WMul(RotL(WXor(hash, k1), 11), PRIME64_1),
            LAMBDA h :
            finish_tail(h, Tail(buffered))))
    ELSE hash

avalanche(hash) ==
    Let(WMul(WXor(hash, Shr(hash, 33)), PRIME64_2), LAMBDA h1 :
    Let(WMul(WXor(h1, Shr(h1, 29)), PRIME64_3),     LAMBDA h2 :
        WXor(h2, Shr(h2, 32))))

\* Hasher::finish
XxHash64_finish(hasher) ==
    Let(IF hasher.total_len >= CHUNK_SIZE
        THEN XxCore_finish(hasher.core)
        ELSE WAdd(hasher.seed, PRIME64_5),              LAMBDA h0 :
    Let(WAdd(h0, WordOfNat(hasher.total_len)),          LAMBDA h1 :
    Let(finish_tail(h1, hasher.buffer),                 LAMBDA h2 :
        avalanche(h2))))

(***************************************************************************)
(* u128 values: 16 bytes, least significant byte first.                     *)
(***************************************************************************)
ByteOr(a, b) == (a + b + ByteXor(a, b)) \div 2

Reverse(s) == [i \in 1..Len(s) |-> s[Len(s) + 1 - i]]

\* x as u128, of a u64
as_u128(x) == x \o ZeroBytes(8)

\* x << n for a u128 x and n a multiple of 8 below 128
Shl128(x, n) == ZeroBytes(n \div 8) \o SubSeq(x, 1, 16 - n \div 8)

\* x | y
Or128(x, y) == [i \in 1..16 |-> ByteOr(x[i], y[i])]

\* u128::swap_bytes
swap_bytes(x) == Reverse(x)

\* The target's endianness is fixed when the crate is compiled.
Hosts == {"little", "big"}

\* to_le left out
to_le_noop(host, x) == x

\* u128::to_le: a no-op on a little-endian target, a byte swap on a
\* big-endian one.
to_le(host, x) == IF host = "little" THEN x ELSE swap_bytes(x)

\* u128::from_be: a no-op on a big-endian target, a byte swap on a
\* little-endian one.
from_be(host, x) == IF host = "big" THEN x ELSE swap_bytes(x)

(***************************************************************************)
(* storage_key and hash_with_space.  Strings are their UTF-8 bytes.         *)
(***************************************************************************)
SPACE == 32

\* the separator left out
hash_with_space_nosep(hasher, left, right) ==
    Let(XxHash64_write(hasher, left),  LAMBDA h1 :
    Let(XxHash64_write(h1, right),     LAMBDA h2 :
        XxHash64_finish(h2)))

hash_with_space(hasher, left, right) ==
    Let(XxHash64_write(hasher, left),  LAMBDA h1 :
    Let(XxHash64_write_u8(h1, SPACE),  LAMBDA h2 :
    Let(XxHash64_write(h2, right),     LAMBDA h3 :
        XxHash64_finish(h3))))

\* line 16: the seed-0 hash
StorageKeyLow(module, item) ==
    hash_with_space(XxHash64_with_seed(WordOfNat(0)), module, item)

\* line 17: the seed-1 hash
StorageKeyHigh(module, item) ==
    hash_with_space(XxHash64_with_seed(WordOfNat(1)), module, item)

\* low << 64 | high
CombineKey_swapped(lo, hi) == Or128(Shl128(as_u128(lo), 64), as_u128(hi))

\* line 18: high << 64 | low, of the two hashes as u128
CombineKey(lo, hi) == Or128(Shl128(as_u128(hi), 64), as_u128(lo))

\* line 19: u128::from_be(key.to_le())
ConvertKey(host, k) == from_be(host, to_le(host, k))

storage_key(host, module, item) ==
    ConvertKey(host, CombineKey(StorageKeyLow(module, item),
                                StorageKeyHigh(module, item)))

(***************************************************************************)
(* Base 58 (the bs58 crate, default Bitcoin alphabet).  A text is the      *)
(* sequence of its UTF-8 bytes.                                             *)
(***************************************************************************)
ALPHABET ==
    <<  49,  50,  51,  52,  53,  54,  55,  56,  57,  65,
        66,  67,  68,  69,  70,  71,  72,  74,  75,  76,
        77,  78,  80,  81,  82,  83,  84,  85,  86,  87,
        88,  89,  90,  97,  98,  99, 100, 101, 102, 103,
       104, 105, 106, 107, 109, 110, 111, 112, 113, 114,
       115, 116, 117, 118, 119, 120, 121, 122 >>

\* the decoding table: the digit of an ASCII character, 255 (0xFF) for a
\* character outside the alphabet
AlphabetDecode(c) ==
    IF \E d \in 1..58 : ALPHABET[d] = c
    THEN (CHOOSE d \in 1..58 : ALPHABET[d] = c) - 1
    ELSE 255

RECURSIVE PushDigits(_, _)
PushDigits(carry, radix) ==
    IF carry = 0 THEN <<>>
    ELSE <<carry % radix>> \o PushDigits(carry \div radix, radix)

\* The inner loop of encoding and of decoding, over the digits lo..hi of
\* out (least significant first): for digit in out { carry += digit * mul;
\* digit = carry % radix; carry /= radix }.  st is [out, carry], out being
\* the digits rewritten so far.  (The range is halved rather than walked,
\* which keeps the evaluation shallow.)
RECURSIVE CarryLoop(_, _, _, _, _, _)
CarryLoop(out, st, mul, radix, lo, hi) ==
    IF lo > hi THEN st
    ELSE IF lo = hi THEN
        Let(st.carry + out[lo] * mul, LAMBDA c :
            [out |-> Append(st.out, c % radix), carry |-> c \div radix])
    ELSE Let(CarryLoop(out, st, mul, radix, lo, (lo + hi) \div 2), LAMBDA s1 :
             CarryLoop(out, s1, mul, radix, (lo + hi) \div 2 + 1, hi))

\* One more value (a byte into base-58 digits, mul = 256 and radix = 58; a
\* digit into bytes, mul = 58 and radix = 256): the inner loop, then
\* while carry > 0 { push carry % radix; carry /= radix }.
CarryInto(out, val, mul, radix) ==
    Let(CarryLoop(out, [out |-> <<>>, carry |-> val], mul, radix, 1, Len(out)),
        LAMBDA st : st.out \o PushDigits(st.carry, radix))

\* the bytes lo..hi of input into the base-58 digits out
RECURSIVE EncodeBytes(_, _, _, _)
EncodeBytes(input, out, lo, hi) ==
    IF lo > hi THEN out
    ELSE IF lo = hi THEN CarryInto(out, input[lo], 256, 58)
    ELSE Let(EncodeBytes(input, out, lo, (lo + hi) \div 2), LAMBDA o1 :
             EncodeBytes(input, o1, (lo + hi) \div 2 + 1, hi))

\* input.take_while(|v| v == z).count()
LeadingCount(s, z) ==
    IF \A i \in 1..Len(s) : s[i] = z THEN Len(s)
    ELSE (CHOOSE i \in 1..Len(s) : s[i] # z /\ \A j \in 1..(i - 1) : s[j] = z) - 1

\* bs58::encode(input).into_string()
bs58_encode(input) ==
    Let(EncodeBytes(input, <<>>, 1, Len(input))
            \o ZeroBytes(LeadingCount(input, 0)),         LAMBDA digits :
    Let([i \in 1..Len(digits) |-> ALPHABET[digits[i] + 1]] \o <<>>, LAMBDA chars :
        Reverse(chars) \o <<>>))

\* The characters lo..hi of input, in order, into the bytes of st, which is
\* [ok, bytes, error]: the first character that is not ASCII or not in the
\* alphabet ends the decoding with an error that names it and its index.
RECURSIVE DecodeChars(_, _, _, _)
DecodeChars(input, st, lo, hi) ==
    IF lo > hi \/ ~st.ok THEN st
    ELSE IF lo = hi THEN
        IF input[lo] > 127
        THEN [ok |-> FALSE, bytes |-> <<>>,
              error |-> <<"NonAsciiCharacter", lo - 1>>]
        ELSE IF AlphabetDecode(input[lo]) = 255
        THEN [ok |-> FALSE, bytes |-> <<>>,
              error |-> <<"InvalidCharacter", input[lo], lo - 1>>]
        ELSE [st EXCEPT !.bytes = CarryInto(st.bytes, AlphabetDecode(input[lo]), 58, 256)]
    ELSE Let(DecodeChars(input, st, lo, (lo + hi) \div 2), LAMBDA s1 :
             DecodeChars(input, s1, (lo + hi) \div 2 + 1, hi))

\* bs58::decode(s).into_vec(): [ok, bytes, error]
bs58_decode(input) ==
    Let(DecodeChars(input, [ok |-> TRUE, bytes |-> <<>>, error |-> <<>>],
                    1, Len(input)),                          LAMBDA r :
        IF r.ok
        THEN [r EXCEPT !.bytes =
                 Reverse(r.bytes \o ZeroBytes(LeadingCount(input, ALPHABET[1]))) \o <<>>]
        ELSE r)

\* Display of bs58::decode::Error
bs58_error_to_string(e) ==
    IF e[1] = "InvalidCharacter"
    THEN <<"provided string contained invalid character ", ToString(e[2]),
           " at byte ", ToString(e[3])>>
    ELSE <<"provided string contained non-ascii character starting at byte ",
           ToString(e[2])>>

(***************************************************************************)
(* AccountId and BadAccountId.  A Result is [tag, id, reason]; tag "Panic"  *)
(* is a panic of the call (a slice out of range, an unwrap of an Err).      *)
(* A reason is a tuple of the pieces of its text.                           *)
(***************************************************************************)
PREFIX == 42

ID_LEN == 32

ENCODED_LEN == 35

SS58PRE == <<83, 83, 53, 56, 80, 82, 69>>

Ok(id) == [tag |-> "Ok", id |-> id, reason |-> <<>>]

Err(reason) == [tag |-> "Err", id |-> <<>>, reason |-> reason]

Panicked == [tag |-> "Panic", id |-> <<>>, reason |-> <<>>]

\* BadAccountId::from_str
BadAccountId_from_str(reason) == Err(reason)

\* BadAccountId::from_reason
BadAccountId_from_reason(e) == BadAccountId_from_str(bs58_error_to_string(e))

hash_account(bytes) == blake2b(SS58PRE \o bytes)

\* &hash.as_array()[0..2]
HashPrefix(hash) == SubSeq(hash, 1, 2)

\* to_string with the checksum taken over the identifier alone
to_string_bytes_bareHash(account) ==
    <<PREFIX>> \o account \o HashPrefix(hash_account(account))

\* to_string writing the prefix byte 0
to_string_bytes_zeroPrefix(account) ==
    <<0>> \o account \o HashPrefix(hash_account(<<0>> \o account))

\* lines 34-37 of to_string: the bytes handed to bs58::encode
to_string_bytes(account) ==
    Let(<<PREFIX>> \o account,  LAMBDA bytes :
    Let(hash_account(bytes),    LAMBDA hash :
        bytes \o HashPrefix(hash)))

to_string(account) == bs58_encode(to_string_bytes(account))

\* &bytes[from..to]: [ok, val], not ok when the range is out of bounds (the
\* slice panics)
Slice(bytes, from, to) ==
    IF from <= to /\ to <= Len(bytes)
    THEN [ok |-> TRUE, val |-> SubSeq(bytes, from + 1, to)]
    ELSE [ok |-> FALSE, val |-> <<>>]

\* the length check letting short input through
LengthMismatch_over(bytes) == Len(bytes) > ENCODED_LEN

\* the length check letting long input through
LengthMismatch_under(bytes) == Len(bytes) < ENCODED_LEN

\* line 47
LengthMismatch(bytes) == Len(bytes) # ENCODED_LEN

\* lines 48-50
LengthError(bytes) ==
    BadAccountId_from_str(<<"Expected 35 bytes in account ID but found ",
                            ToString(Len(bytes))>>)

\* the account taken from &bytes[0..32]
AccountSlice_fromStart(bytes) == Slice(bytes, 0, 32)

\* line 52: &bytes[1..33]
AccountSlice(bytes) == Slice(bytes, 1, 33)

\* the hash taken over PREFIX and the account, whatever bytes[0] is
ChecksumInput_fixedPrefix(bytes) ==
    IF Len(bytes) >= 33
    THEN [ok |-> TRUE, val |-> <<PREFIX>> \o SubSeq(bytes, 2, 33)]
    ELSE [ok |-> FALSE, val |-> <<>>]

\* line 53: &bytes[..33]
ChecksumInput(bytes) == Slice(bytes, 0, 33)

\* line 54: bytes[33..]
ChecksumSlice(bytes) == Slice(bytes, 33, Len(bytes))

\* the comparison left out
ChecksumMismatch_never(given, hash) == FALSE

\* line 54: bytes[33..] != hash.as_array()[0..2]
ChecksumMismatch(given, hash) == given # HashPrefix(hash)

\* line 57: account.try_into().unwrap() to [u8; 32]
TryIntoUnwrap(account) ==
    IF Len(account) = ID_LEN THEN Ok(account) ELSE Panicked

from_str(s) ==
    Let(bs58_decode(s), LAMBDA dec :
        IF ~dec.ok THEN BadAccountId_from_reason(dec.error)
        ELSE IF LengthMismatch(dec.bytes) THEN LengthError(dec.bytes)
        ELSE LET account == AccountSlice(dec.bytes)
                 hashed  == ChecksumInput(dec.bytes)
                 given   == ChecksumSlice(dec.bytes)
             IN  IF ~account.ok \/ ~hashed.ok \/ ~given.ok THEN Panicked
                 ELSE IF ChecksumMismatch(given.val, hash_account(hashed.val))
                 THEN BadAccountId_from_str(<<"Invalid hash in account ID">>)
                 ELSE TryIntoUnwrap(account.val))

(***************************************************************************)
(* The inputs the model runs the program on.                                *)
(***************************************************************************)
\* the account of the crate's tests (ACCOUNT_HEX)
ACCOUNT_HEX ==
    <<212,  53, 147, 199,  21, 253, 211,  28,  97,  20,  26, 189,   4, 169, 159, 214,
      130,  44, 133,  88, 133,  76, 205, 227, 154,  86, 132, 231, 165, 109, 162, 125>>

\* the text of the crate's tests (ACCOUNT_ID)
ACCOUNT_ID ==
    << 53,  71, 114, 119, 118,  97,  69,  70,  53, 122,  88,  98,
       50,  54,  70, 122,  57, 114,  99,  81, 112,  68,  87,  83,
       53,  55,  67, 116,  69,  82,  72, 112,  78, 101, 104,  88,
       67,  80,  99,  78, 111,  72,  71,  75, 117, 116,  81,  89 >>

\* the account whose 32 bytes all are c
Fill(c) == [i \in 1..ID_LEN |-> c] \o <<>>

\* Among the accounts Fill(c), those of 131 and of 232 each have a bit whose
\* flip leaves the first two bytes of the hash as they are (bit 4 of byte 29
\* and bit 3 of byte 15, counted from 0).
FillBytes == {0, 131, 232}

Accounts == {ACCOUNT_HEX} \cup {Fill(c) : c \in FillBytes}

\* the bytes of the account (counted from 0) in which a bit is flipped
FlipBytes == {0, 15, 29, 31}

FlipBits == 0..7

\* prefix bytes an input is built with
Prefixes == {0, 42, 255}

\* an input's decoded length is 0 or within MaxDelta of ENCODED_LEN
MaxDelta == 2

Lengths == ({0} \cup ((ENCODED_LEN - MaxDelta)..(ENCODED_LEN + MaxDelta)))
               \ {ENCODED_LEN}

\* characters that are not of the alphabet ("0", "O", "I", "l") and one that
\* is not ASCII (U+00E9, two bytes)
BadChars == {<<48>>, <<79>>, <<73>>, <<108>>, <<195, 169>>}

\* names: "A" and " " up to MaxNameLen bytes
NameAlphabet == {65, SPACE}

MaxNameLen == 2

Names == UNION {[1..k -> NameAlphabet] : k \in 0..MaxNameLen}

\* a module name of PadLen bytes "x": with what follows it, the hashed
\* bytes pass CHUNK_SIZE
PadLen == 30

LongName == [i \in 1..PadLen |-> 120] \o <<>>

Sudo == <<83, 117, 100, 111>>

Key == <<75, 101, 121>>

\* "A B" and "B C", "C"
Modules == Names \cup {LongName \o n : n \in Names} \cup {Sudo, <<65, 32, 66>>}

Items == Names \cup {Key, <<66, 32, 67>>, <<67>>}

(***************************************************************************)
(* The state.  account, bytes, text, origin, result and reenc are of the   *)
(* codec; host, module, item, low, high, v and key of storage_key.          *)
(*   account  the AccountId to_string is called on                          *)
(*   bytes    the bytes last encoded to text: by to_string (its local       *)
(*            bytes), or by the caller who makes an input                   *)
(*   text     the String to_string returned, or the input of from_str       *)
(*   origin   how text was made                                             *)
(*   result   what from_str returned                                        *)
(*   reenc    the bytes to_string encodes for the AccountId of result       *)
(*   low, high, v   storage_key's locals (v is key before line 19)          *)
(*   key      what storage_key returned                                     *)
(***************************************************************************)
VARIABLES pc, account, bytes, text, origin, result, reenc,
          host, module, item, low, high, v, key

vars == <<pc, account, bytes, text, origin, result, reenc,
          host, module, item, low, high, v, key>>

codecVars == <<account, bytes, text, origin, result, reenc>>

keyVars == <<host, module, item, low, high, v, key>>

NoResult == [tag |-> "None", id |-> <<>>, reason |-> <<>>]

CodecIdle ==
    /\ account = <<>> /\ bytes = <<>> /\ text = <<>> /\ origin = "none"
    /\ result = NoResult /\ reenc = <<>>

KeyIdle ==
    /\ host = "little" /\ module = <<>> /\ item = <<>>
    /\ low = <<>> /\ high = <<>> /\ v = <<>> /\ key = <<>>

(***************************************************************************)
(* The codec.                                                               *)
(***************************************************************************)
Init ==
    /\ pc = "start"
    /\ account \in Accounts
    /\ bytes = <<>> /\ text = <<>> /\ origin = "none"
    /\ result = NoResult /\ reenc = <<>>
    /\ KeyIdle

\* account.to_string()
Encode ==
    /\ pc = "start"
    /\ bytes' = to_string_bytes(account)
    /\ text' = bs58_encode(bytes')
    /\ origin' = "to_string"
    /\ pc' = "encoded"
    /\ UNCHANGED <<account, result, reenc, keyVars>>

\* byte b with bit k flipped
FlipBit(b, k) ==
    IF (b \div Pow2[k + 1]) % 2 = 1 THEN b - Pow2[k + 1] ELSE b + Pow2[k + 1]

\* A caller flips bit k of byte j of the account in the encoded bytes and
\* encodes them again, the checksum left as it was.
Flip(j, k) ==
    /\ pc = "encoded"
    /\ bytes' = [bytes EXCEPT ![j + 2] = FlipBit(bytes[j + 2], k)]
    /\ text' = bs58_encode([bytes EXCEPT ![j + 2] = FlipBit(bytes[j + 2], k)])
    /\ origin' = "flip"
    /\ pc' = "input"
    /\ UNCHANGED <<account, result, reenc, keyVars>>

\* A caller encodes the account under prefix p, with the checksum of that.
Reprefix(p) ==
    /\ pc = "encoded"
    /\ bytes' = <<p>> \o account \o HashPrefix(hash_account(<<p>> \o account))
    /\ text' = bs58_encode(bytes')
    /\ origin' = "prefix"
    /\ pc' = "input"
    /\ UNCHANGED <<account, result, reenc, keyVars>>

\* A caller cuts the encoded bytes to n bytes, or pads them with zeros.
Resize(n) ==
    /\ pc = "encoded"
    /\ bytes' = IF n <= Len(bytes) THEN SubSeq(bytes, 1, n)
                ELSE bytes \o ZeroBytes(n - Len(bytes))
    /\ text' = bs58_encode(bytes')
    /\ origin' = "resize"
    /\ pc' = "input"
    /\ UNCHANGED <<account, result, reenc, keyVars>>

\* A caller replaces character i of the text by c.
Garble(i, c) ==
    /\ pc = "encoded"
    /\ i \in 1..Len(text)
    /\ text' = SubSeq(text, 1, i - 1) \o c \o SubSeq(text, i + 1, Len(text))
    /\ origin' = "garble"
    /\ pc' = "input"
    /\ UNCHANGED <<account, bytes, result, reenc, keyVars>>

\* text.parse::<AccountId>()
FromStr ==
    /\ pc \in {"encoded", "input"}
    /\ result' = from_str(text)
    /\ pc' = "parsed"
    /\ UNCHANGED <<account, bytes, text, origin, reenc, keyVars>>

\* to_string() of the AccountId from_str returned
EncodeAgain ==
    /\ pc = "parsed"
    /\ result.tag = "Ok"
    /\ reenc' = to_string_bytes(result.id)
    /\ text' = bs58_encode(reenc')
    /\ pc' = "reencoded"
    /\ UNCHANGED <<account, bytes, origin, result, keyVars>>

Next ==
    \/ Encode
    \/ \E j \in FlipBytes, k \in FlipBits : Flip(j, k)
    \/ \E p \in Prefixes : Reprefix(p)
    \/ \E n \in Lengths : Resize(n)
    \/ \E i \in {1, Len(text)}, c \in BadChars : Garble(i, c)
    \/ FromStr
    \/ EncodeAgain

Spec == Init /\ [][Next]_vars

(***************************************************************************)
(* storage_key.                                                             *)
(***************************************************************************)
KeyInit ==
    /\ pc = "start"
    /\ host \in Hosts
    /\ module \in Modules
    /\ item \in Items
    /\ low = <<>> /\ high = <<>> /\ v = <<>> /\ key = <<>>
    /\ CodecIdle

\* storage_key(module, item)
StorageKey ==
    /\ pc = "start"
    /\ low' = StorageKeyLow(module, item)
    /\ high' = StorageKeyHigh(module, item)
    /\ v' = CombineKey(low', high')
    /\ key' = ConvertKey(host, v')
    /\ pc' = "done"
    /\ UNCHANGED <<host, module, item, codecVars>>

KeyNext == StorageKey

KeySpec == KeyInit /\ [][KeyNext]_vars

(***************************************************************************)
(* Properties of the codec (specification Spec).                            *)
(***************************************************************************)
\* what bs58::decode gives for the text in the state
Decoded == bs58_decode(text)

InvalidHash == <<"Invalid hash in account ID">>

\* the first two bytes of the hash of "SS58PRE" and the first 33 bytes of b
ChecksumOf(b) == SubSeq(blake2b(SS58PRE \o SubSeq(b, 1, 33)), 1, 2)

\* b is 35 bytes that end with the checksum of the 33 before
Consistent(b) == Len(b) = ENCODED_LEN /\ SubSeq(b, 34, 35) = ChecksumOf(b)

\* C1: from_str of the text that to_string made of an account returns Ok
\* with that account, the same 32 bytes.
C1_RoundTrip ==
    (pc = "parsed" /\ origin = "to_string") => result = Ok(account)

C1_Witness ==
    /\ pc = "parsed" /\ origin = "to_string"
    /\ account = ACCOUNT_HEX /\ text = ACCOUNT_ID
    /\ result.tag = "Ok" /\ Len(result.id) = ID_LEN

\* C2: from_str never panics: it returns Ok, or an error of one of three
\* causes: the text is not base 58 (the message is that of bs58), the
\* decoded length is not 35, or the checksum does not match; the slices and
\* the unwrap are passed only by 35 decoded bytes.
C2_Total ==
    pc = "parsed" =>
        /\ result.tag \in {"Ok", "Err"}
        /\ result.tag = "Err" =>
              \/ /\ ~Decoded.ok
                 /\ result.reason = bs58_error_to_string(Decoded.error)
              \/ /\ Decoded.ok /\ Len(Decoded.bytes) # ENCODED_LEN
                 /\ result.reason[1] = "Expected 35 bytes in account ID but found "
              \/ /\ Decoded.ok /\ Len(Decoded.bytes) = ENCODED_LEN
                 /\ result.reason = InvalidHash
        /\ result.tag = "Ok" =>
              Decoded.ok /\ Len(Decoded.bytes) = ENCODED_LEN

\* an input of no bytes at all, which the slices would not survive
C2_Witness ==
    /\ pc = "parsed" /\ origin = "resize" /\ text = <<>>
    /\ result.tag = "Err"

\* C3 as stated: a bit flipped in the account of a valid encoding, the
\* prefix and the checksum left as they were, makes from_str fail with
\* "Invalid hash in account ID".
C3_FlipAlwaysRejected ==
    (pc = "parsed" /\ origin = "flip") => result = Err(InvalidHash)

\* C3, amended: such an input fails with "Invalid hash in account ID" when
\* the checksum of its first 33 bytes differs from the checksum it carries;
\* when the two agree from_str returns Ok with the account of the flipped
\* bit, which is not the account that was encoded.
C3_FlipRejectedUnlessCollision ==
    (pc = "parsed" /\ origin = "flip") =>
        IF Consistent(bytes)
        THEN result = Ok(SubSeq(bytes, 2, 33)) /\ result.id # account
        ELSE result = Err(InvalidHash)

\* the account of 32 bytes 131 with bit 4 of byte 29 flipped is accepted
C3_Witness ==
    /\ pc = "parsed" /\ origin = "flip"
    /\ account = Fill(131)
    /\ bytes = [to_string_bytes(account) EXCEPT ![31] = 147]
    /\ result.tag = "Ok"

\* C4: a text that decodes to n bytes, n not 35, gets the error "Expected
\* 35 bytes in account ID but found n" with n the decoded length, also
\* when the bytes carry a checksum that matches.
C4_LengthFirst ==
    (pc = "parsed" /\ Decoded.ok /\ Len(Decoded.bytes) # ENCODED_LEN) =>
        /\ result = Err(<<"Expected 35 bytes in account ID but found ",
                          ToString(Len(Decoded.bytes))>>)
        /\ origin = "resize" => Decoded.bytes = bytes

\* 36 bytes: a valid encoding and one more byte
C4_Witness ==
    /\ pc = "parsed" /\ origin = "resize"
    /\ Len(bytes) = ENCODED_LEN + 1
    /\ Consistent(SubSeq(bytes, 1, ENCODED_LEN))
    /\ result.reason = <<"Expected 35 bytes in account ID but found ", "36">>

\* C5: the text of 35 bytes b that end with the checksum of b[0..33]
\* parses to Ok(b[1..33]), whatever b[0] is.
C5_PrefixNotValidated ==
    (pc = "parsed" /\ origin \in {"to_string", "prefix", "flip"}
        /\ Consistent(bytes)) =>
        result = Ok(SubSeq(bytes, 2, 33))

C5_Witness ==
    /\ pc = "parsed" /\ origin = "prefix"
    /\ bytes[1] = 255 /\ Consistent(bytes)
    /\ result = Ok(account)

\* C6: the bytes to_string encodes are 35: 42, the 32 bytes of the account,
\* and the first 2 bytes of the hash of "SS58PRE", 42 and the account; the
\* text is their base 58.
C6_Layout ==
    pc = "encoded" =>
        /\ Len(bytes) = 35
        /\ bytes[1] = 42
        /\ SubSeq(bytes, 2, 33) = account
        /\ SubSeq(bytes, 34, 35) =
               SubSeq(blake2b(SS58PRE \o <<42>> \o account), 1, 2)
        /\ Decoded.ok /\ Decoded.bytes = bytes

\* the account of the crate's tests: its checksum is 29, 33
C6_Witness ==
    /\ pc = "encoded" /\ account = ACCOUNT_HEX
    /\ text = ACCOUNT_ID
    /\ SubSeq(bytes, 34, 35) = <<29, 33>>

\* C10: of 35 bytes b that from_str accepts, the bytes to_string encodes
\* for the AccountId returned are b exactly when b[0] = 42; they always
\* start with 42 and carry the account of b.
C10_ReverseRoundTrip ==
    pc = "reencoded" =>
        /\ (reenc = bytes) <=> (bytes[1] = 42)
        /\ reenc[1] = 42
        /\ SubSeq(reenc, 2, 33) = SubSeq(bytes, 2, 33)

\* an input of prefix 255 that parses to the account of the prefix-42 text
C10_Witness ==
    /\ pc = "reencoded" /\ origin = "prefix"
    /\ bytes[1] = 255 /\ result = Ok(account)
    /\ reenc # bytes /\ reenc = to_string_bytes(account)

(***************************************************************************)
(* Properties of storage_key (specification KeySpec).  A u64 or u128 is    *)
(* the sequence of its bytes from the least significant one, so that the   *)
(* big-endian bytes of key are Reverse(key).                                *)
(***************************************************************************)
\* the hash of seed s of data, written at once
HashOnce(s, data) ==
    XxHash64_finish(XxHash64_write(XxHash64_with_seed(WordOfNat(s)), data))

\* what storage_key hashes
Joined == module \o <<SPACE>> \o item

\* C7 as stated: the most significant 8 bytes of the key are the
\* little-endian bytes of high, the least significant 8 those of low.
C7_HighThenLow ==
    pc = "done" => Reverse(key) = high \o low

\* C7, amended: the most significant 8 bytes of the key are the
\* little-endian bytes of low, the least significant 8 those of high:
\* the key is the big-endian reading of low then high, each in
\* little-endian order.
C7_LowThenHigh ==
    pc = "done" => Reverse(key) = low \o high

\* storage_key("Sudo", "Key") = 0x50a63a871aced22e88ee6466fe5aa5d9
C7_Witness ==
    /\ pc = "done" /\ module = Sudo /\ item = Key
    /\ low = <<80, 166, 58, 135, 26, 206, 210, 46>>
    /\ high = <<136, 238, 100, 102, 254, 90, 165, 217>>
    /\ Reverse(key) = <<80, 166, 58, 135, 26, 206, 210, 46,
                        136, 238, 100, 102, 254, 90, 165, 217>>

\* C8: the key is v = high << 64 | low with its 16 bytes in reversed
\* order, on a little-endian host and on a big-endian one alike.
C8_ByteReversed ==
    pc = "done" =>
        /\ v = low \o high
        /\ \A i \in 1..16 : key[i] = v[17 - i]
        /\ \A h \in Hosts : ConvertKey(h, v) = key

C8_Witness ==
    /\ pc = "done" /\ host = "big"
    /\ module = Sudo /\ item = Key
    /\ key # v /\ key[1] = v[16] /\ key[16] = v[1]

\* C9: low and high are the hashes of seed 0 and 1 of module, 0x20, item
\* written at once, and every pair of names with that concatenation has
\* the key of this one.
C9_Concatenation ==
    pc = "done" =>
        /\ low = HashOnce(0, Joined)
        /\ high = HashOnce(1, Joined)
        /\ \A k \in 1..Len(Joined) :
              Joined[k] = SPACE =>
                  storage_key(host, SubSeq(Joined, 1, k - 1),
                              SubSeq(Joined, k + 1, Len(Joined))) = key

\* ("A B", "C") has the key of ("A", "B C")
C9_Witness ==
    /\ pc = "done" /\ module = <<65, 32, 66>> /\ item = <<67>>
    /\ key = storage_key(host, <<65>>, <<66, 32, 67>>)
    /\ key # storage_key(host, <<65>>, <<66>>)
=============================================================================
